---- MODULE Spec2Model ----
(***************************************************************************)
(* PlyModel (src/components/SceneComponents.tsx, lines 96-168): the React  *)
(* component that shows a PLY file.  The loader hands it a BufferGeometry; *)
(* a useEffect keyed on that geometry measures it, stores an auto-scale    *)
(* factor in component state, recentres the positions and, for an indexed  *)
(* geometry without normals, computes vertex normals; the render function  *)
(* picks <points> or <mesh>; a per-frame callback turns the object.        *)
(*                                                                         *)
(* Numbers.  Coordinates are kept doubled: the integer v stands for the    *)
(* coordinate v/2, and a decoded file holds even integers only, so that    *)
(* the centre (min+max)/2 of a bounding box is again an integer of the     *)
(* model.  A scale factor is a reduced fraction <<num, den>>.  A normal is *)
(* a direction (a primitive integer vector) with a flag saying whether its *)
(* length is 1.  Arithmetic is exact: floating-point rounding is not       *)
(* modelled.                                                               *)
(***************************************************************************)
EXTENDS Integers, Sequences, FiniteSets, TLC

VARIABLES
    files,      \* what the PLY decoder yields for each url (never changes)
    hasCenter,  \* whether BufferGeometry offers center() (line 116)
    cache,      \* useLoader's cache: url -> <<>> or <<geometry>> (shared, mutable)
    url,        \* the url prop of the mounted component, "none" before the mount
    autoScale,  \* React state of line 99
    view,       \* <<>> or <<element>>: the element of the last committed render
    rotY,       \* ref.current.rotation.y
    pc,         \* "idle", "effect" (committed, effect pending), "render" (state set)
    run,        \* history: the last run of the effect, step by step
    done,       \* history: url -> <<>> or <<auto>> of the last run that did not throw
    turn        \* history: sum of delta * rotationSpeed since the object was made

vars == <<files, hasCenter, cache, url, autoScale, view, rotY, pc, run, done, turn>>

----------------------------------------------------------------------------
(* Bounds of the model *)

MaxVerts == 3
MaxAngle == 2
MaxDelta == 2
MaxSpeed == 1

Urls == {"x.ply", "y.ply"}
Points == {<<0, 0, 0>>, <<2, 0, 0>>, <<10, 10, 10>>}
Deltas == 1..MaxDelta
Speeds == (0 - MaxSpeed)..MaxSpeed
Faults == {"none", "computeBoundingBox", "recenter", "computeVertexNormals"}

----------------------------------------------------------------------------
(* Vectors and fractions *)

Zero3 == <<0, 0, 0>>
Abs(a) == IF a < 0 THEN 0 - a ELSE a
Max2(a, b) == IF a > b THEN a ELSE b
Min2(a, b) == IF a < b THEN a ELSE b
Sub3(a, b) == <<a[1] - b[1], a[2] - b[2], a[3] - b[3]>>
Add3(a, b) == <<a[1] + b[1], a[2] + b[2], a[3] + b[3]>>
Cross3(a, b) ==
    <<a[2] * b[3] - a[3] * b[2], a[3] * b[1] - a[1] * b[3], a[1] * b[2] - a[2] * b[1]>>

RECURSIVE Gcd(_, _)
Gcd(a, b) == IF b = 0 THEN a ELSE Gcd(b, a % b)

Frac(n, d) == LET g == Gcd(Abs(n), Abs(d)) IN <<n \div g, d \div g>>
FracMul(p, q) == Frac(p[1] * q[1], p[2] * q[2])
One == <<1, 1>>

\* The unit vector along an accumulated integer vector (Vector3.normalize, which
\* leaves the zero vector alone).
UnitOf(v) ==
    IF v = Zero3 THEN [dir |-> Zero3, unit |-> FALSE]
    ELSE LET g == Gcd(Gcd(Abs(v[1]), Abs(v[2])), Abs(v[3]))
         IN [dir |-> <<v[1] \div g, v[2] \div g, v[3] \div g>>, unit |-> TRUE]

NormalizeNormal(n) == IF n.dir = Zero3 THEN n ELSE [n EXCEPT !.unit = TRUE]

----------------------------------------------------------------------------
(* Decoded files *)

FileNormals == {[dir |-> <<0, 0, 1>>, unit |-> TRUE], [dir |-> <<0, 0, 1>>, unit |-> FALSE]}
FileColor == <<255, 0, 0>>

PositionLists == UNION {[1..n -> Points] : n \in 0..MaxVerts}
FaceLists(n) == IF n >= 3 THEN {<<>>, <<<<0, 1, 2>>>>} ELSE {<<>>}
NormalLists(n) ==
    {<<>>} \cup (IF n >= 1 THEN {[i \in 1..n |-> fn] : fn \in FileNormals} ELSE {})
ColorLists(n) == {<<>>} \cup (IF n >= 1 THEN {[i \in 1..n |-> FileColor]} ELSE {})

BuffersOf(p) ==
    {[positions |-> p, faces |-> f, normals |-> nl, colors |-> c] :
        f \in FaceLists(Len(p)), nl \in NormalLists(Len(p)), c \in ColorLists(Len(p))}
Buffers == UNION {BuffersOf(p) : p \in PositionLists}

----------------------------------------------------------------------------
(* The loader (line 97).  PLYLoader sets the index, the normal and the color *)
(* attribute only when the file holds faces, normals, colours.  An absent   *)
(* attribute is <<>>, a present one <<value>>.                              *)

RECURSIVE Flatten(_)
Flatten(fs) == IF fs = <<>> THEN <<>> ELSE Head(fs) \o Flatten(Tail(fs))

LoadPly(b) ==
    [position    |-> b.positions,
     index       |-> IF Len(b.faces) > 0 THEN <<Flatten(b.faces)>> ELSE <<>>,
     normal      |-> IF Len(b.normals) > 0 THEN <<b.normals>> ELSE <<>>,
     color       |-> IF Len(b.colors) > 0 THEN <<b.colors>> ELSE <<>>,
     boundingBox |-> <<>>]

----------------------------------------------------------------------------
(* Box3 and the BufferGeometry methods the effect calls *)

EmptyBox == [empty |-> TRUE, min |-> Zero3, max |-> Zero3]

RECURSIVE ExpandBox(_, _)
ExpandBox(box, ps) ==
    IF ps = <<>> THEN box
    ELSE LET p == Head(ps)
             b == IF box.empty
                  THEN [empty |-> FALSE, min |-> p, max |-> p]
                  ELSE [empty |-> FALSE,
                        min |-> <<Min2(box.min[1], p[1]), Min2(box.min[2], p[2]),
                                  Min2(box.min[3], p[3])>>,
                        max |-> <<Max2(box.max[1], p[1]), Max2(box.max[2], p[2]),
                                  Max2(box.max[3], p[3])>>]
         IN ExpandBox(b, Tail(ps))

\* Box3.setFromBufferAttribute: makeEmpty, then expandByPoint for every vertex.
BoxOf(ps) == ExpandBox(EmptyBox, ps)

\* Box3.getSize and Box3.getCenter: the zero vector for an empty box.
GetSize(box) == IF box.empty THEN Zero3 ELSE Sub3(box.max, box.min)
GetCenter(box) ==
    IF box.empty THEN Zero3
    ELSE <<(box.min[1] + box.max[1]) \div 2, (box.min[2] + box.max[2]) \div 2,
           (box.min[3] + box.max[3]) \div 2>>

\* faulty variant: the box is measured only when the geometry has none yet
ComputeBoundingBoxOnce(g) ==
    IF g.boundingBox = <<>> THEN [g EXCEPT !.boundingBox = <<BoxOf(g.position)>>] ELSE g

\* geometry.computeBoundingBox() (line 107)
ComputeBoundingBox(g) == [g EXCEPT !.boundingBox = <<BoxOf(g.position)>>]

\* line 110
MaxDim(size) == Max2(Max2(size[1], size[2]), size[3])

\* line 111
desired == 2

\* faulty variant: no guard against a zero extent (2 / 0 is the fraction <<1, 0>>)
AutoScaleUnguarded(maxDim) == Frac(2 * desired, maxDim)

\* line 112: desired / maxDim, or 1.  maxDim is doubled in the model, so
\* desired / (maxDim / 2) = (2 * desired) / maxDim.
AutoScaleOf(maxDim) == IF maxDim > 0 THEN Frac(2 * desired, maxDim) ELSE One

\* BufferAttribute.applyMatrix4 with a translation by -center
Translate(ps, center) == [i \in 1..Len(ps) |-> Sub3(ps[i], center)]

\* geometry.center() (line 117): computeBoundingBox, then translate by the negated
\* centre.  translate is applyMatrix4, which moves the positions, passes the
\* normals through applyNormalMatrix (for a translation: normalize() of each
\* normal) and recomputes a bounding box that is not null.
Center(g) ==
    LET g1 == ComputeBoundingBox(g)
        c  == GetCenter(g1.boundingBox[1])
        ps == Translate(g1.position, c)
    IN [g1 EXCEPT !.position = ps,
                  !.normal = IF g1.normal = <<>> THEN <<>>
                             ELSE <<[i \in 1..Len(g1.normal[1]) |->
                                        NormalizeNormal(g1.normal[1][i])]>>,
                  !.boundingBox = <<BoxOf(ps)>>]

\* lines 119-126: the loop over the position attribute, with the centre of the box
\* measured at line 107.
RECURSIVE SubtractFrom(_, _, _)
SubtractFrom(ps, i, center) ==
    IF i > Len(ps) THEN ps
    ELSE SubtractFrom([ps EXCEPT ![i] = Sub3(ps[i], center)], i + 1, center)

\* faulty variant: the loop starts at the second vertex
ManualRecenterFromSecond(g) ==
    LET center == GetCenter(g.boundingBox[1])
    IN [g EXCEPT !.position = SubtractFrom(g.position, 2, center)]

ManualRecenter(g) ==
    LET center == GetCenter(g.boundingBox[1])
    IN [g EXCEPT !.position = SubtractFrom(g.position, 1, center)]

\* lines 116-127
Recenter(g, bulk) == IF bulk THEN Center(g) ELSE ManualRecenter(g)

\* geometry.computeVertexNormals() on an indexed geometry: a zeroed normal per
\* vertex, the face normal (pC - pB) x (pA - pB) of every triangle added to its
\* three corners, then normalizeNormals().
RECURSIVE AccumulateFaces(_, _, _, _)
AccumulateFaces(ns, idx, i, ps) ==
    IF i + 2 > Len(idx) THEN ns
    ELSE LET vA == idx[i] + 1
             vB == idx[i + 1] + 1
             vC == idx[i + 2] + 1
             cb == Cross3(Sub3(ps[vC], ps[vB]), Sub3(ps[vA], ps[vB]))
             n1 == [ns EXCEPT ![vA] = Add3(@, cb)]
             n2 == [n1 EXCEPT ![vB] = Add3(@, cb)]
             n3 == [n2 EXCEPT ![vC] = Add3(@, cb)]
         IN AccumulateFaces(n3, idx, i + 3, ps)

ComputeVertexNormals(g) ==
    LET zero == [i \in 1..Len(g.position) |-> Zero3]
        acc  == AccumulateFaces(zero, g.index[1], 1, g.position)
    IN [g EXCEPT !.normal = <<[i \in 1..Len(acc) |-> UnitOf(acc[i])]>>]

\* faulty variant: normals are computed whenever there is an index
NeedsNormalsIndexOnly(g) == g.index # <<>>

\* line 130
NeedsNormals(g) == g.normal = <<>> /\ g.index # <<>>

----------------------------------------------------------------------------
(* The effect of lines 102-136, run on geometry g.  bulk says whether         *)
(* geometry.center exists; fault names the call that throws in this run       *)
(* ("none": nothing throws).  The result holds the geometry after each step,  *)
(* the value handed to setAutoScale (<<>> when line 113 was not reached) and   *)
(* whether the catch of line 133 was entered.                                 *)

NormalizeEffect(g, bulk, fault) ==
    IF fault = "computeBoundingBox"
    THEN [pre |-> g, boxed |-> g, mid |-> g, post |-> g, set |-> <<>>,
          recentered |-> FALSE, threw |-> TRUE]
    ELSE LET g1   == ComputeBoundingBox(g)
             size == GetSize(g1.boundingBox[1])
             auto == AutoScaleOf(MaxDim(size))
         IN IF fault = "recenter"
            THEN [pre |-> g, boxed |-> g1, mid |-> g1, post |-> g1, set |-> <<auto>>,
                  recentered |-> FALSE, threw |-> TRUE]
            ELSE LET g2 == Recenter(g1, bulk)
                 IN IF NeedsNormals(g2) /\ fault = "computeVertexNormals"
                    THEN [pre |-> g, boxed |-> g1, mid |-> g2, post |-> g2,
                          set |-> <<auto>>, recentered |-> TRUE, threw |-> TRUE]
                    ELSE [pre |-> g, boxed |-> g1, mid |-> g2,
                          post |-> IF NeedsNormals(g2) THEN ComputeVertexNormals(g2)
                                   ELSE g2,
                          set |-> <<auto>>, recentered |-> TRUE, threw |-> FALSE]

----------------------------------------------------------------------------
(* The render function, lines 144-167 *)

\* the scale prop's default (line 96)
scale == 1

\* line 146
HasVertexColors(g) == g.color # <<>>

\* faulty variant: points are chosen for a geometry without normals
IsPointCloudByNormals(g) == g.normal = <<>>

\* line 149
IsPointCloud(g) == g.index = <<>>

Render(c, u, auto) ==
    IF u = "none" \/ c[u] = <<>> THEN <<>>
    ELSE LET g == c[u][1]
         IN <<[prim         |-> IF IsPointCloud(g) THEN "points" ELSE "mesh",
               geometry     |-> u,
               scale        |-> FracMul(auto, <<scale, 1>>),
               vertexColors |-> HasVertexColors(g)]>>

\* faulty variant: the guard "rotationSpeed > 0" the comment of line 29 speaks of
RotateYForwardOnly(angle, delta, rotationSpeed) ==
    IF rotationSpeed > 0 THEN angle + delta * rotationSpeed ELSE angle

\* lines 138-142
RotateY(angle, delta, rotationSpeed) == angle + delta * rotationSpeed

\* React keeps the three.js object of an element whose type is unchanged and
\* makes a new one (rotation 0) otherwise.
SameObject(old, new) == old # <<>> /\ new # <<>> /\ old[1].prim = new[1].prim

----------------------------------------------------------------------------
(* The component's life *)

NoGeometry == LoadPly([positions |-> <<>>, faces |-> <<>>, normals |-> <<>>, colors |-> <<>>])
NoRun ==
    [ran |-> FALSE, url |-> "none", pre |-> NoGeometry, boxed |-> NoGeometry,
     mid |-> NoGeometry, post |-> NoGeometry, set |-> <<>>, recentered |-> FALSE,
     threw |-> FALSE, preDone |-> <<>>]

\* The state after construction, for the files the urls serve.
Start(fs) ==
    /\ files = fs
    /\ hasCenter \in BOOLEAN
    /\ cache = [u \in Urls |-> <<>>]
    /\ url = "none"
    /\ autoScale = One
    /\ view = <<>>
    /\ rotY = 0
    /\ pc = "idle"
    /\ run = NoRun
    /\ done = [u \in Urls |-> <<>>]
    /\ turn = 0

\* The url prop becomes u (the mount, when there was none): useLoader yields u's
\* geometry, decoding the file on first use (line 97); the component renders with
\* the state it has and the commit schedules the effect, whose dependency changed.
\* React runs a pending effect and a pending state update before it renders new
\* props, hence pc = "idle".
Load(u) ==
    /\ pc = "idle"
    /\ u # url
    /\ cache' = IF cache[u] = <<>> THEN [cache EXCEPT ![u] = <<LoadPly(files[u])>>]
                ELSE cache
    /\ url' = u
    /\ view' = Render(cache', u, autoScale)
    /\ rotY' = IF SameObject(view, view') THEN rotY ELSE 0
    /\ turn' = IF SameObject(view, view') THEN turn ELSE 0
    /\ pc' = "effect"
    /\ run' = NoRun
    /\ UNCHANGED <<files, hasCenter, autoScale, done>>

\* The effect of lines 102-136 runs; a changed state asks for another render.
Effect(fault) ==
    /\ pc = "effect"
    /\ IF cache[url] = <<>>
       THEN /\ pc' = "idle"
            /\ UNCHANGED <<cache, autoScale, run, done>>
       ELSE LET r == NormalizeEffect(cache[url][1], hasCenter, fault)
            IN /\ cache' = [cache EXCEPT ![url] = <<r.post>>]
               /\ autoScale' = IF r.set # <<>> THEN r.set[1] ELSE autoScale
               /\ pc' = IF autoScale' # autoScale THEN "render" ELSE "idle"
               /\ run' = [ran |-> TRUE, url |-> url, pre |-> r.pre, boxed |-> r.boxed,
                          mid |-> r.mid, post |-> r.post, set |-> r.set,
                          recentered |-> r.recentered, threw |-> r.threw,
                          preDone |-> done[url]]
               /\ done' = IF r.threw THEN done ELSE [done EXCEPT ![url] = r.set]
    /\ UNCHANGED <<files, hasCenter, url, view, rotY, turn>>

\* The render that setAutoScale asked for: same geometry, new state.
Rerender ==
    /\ pc = "render"
    /\ view' = Render(cache, url, autoScale)
    /\ pc' = "idle"
    /\ UNCHANGED <<files, hasCenter, cache, url, autoScale, rotY, run, done, turn>>

\* The component is unmounted and mounted again with the same url: fresh state
\* (line 99), a new object, the loader's cached geometry, and the effect again.
Remount ==
    /\ pc = "idle"
    /\ url # "none"
    /\ autoScale' = One
    /\ view' = Render(cache, url, One)
    /\ rotY' = 0
    /\ turn' = 0
    /\ pc' = "effect"
    /\ run' = NoRun
    /\ UNCHANGED <<files, hasCenter, cache, url, done>>

\* The useFrame callback of lines 138-142 (and of lines 28-33, 79-84).
Frame(delta, rotationSpeed) ==
    /\ view # <<>>
    /\ Abs(RotateY(rotY, delta, rotationSpeed)) <= MaxAngle
    /\ rotY' = RotateY(rotY, delta, rotationSpeed)
    /\ turn' = turn + delta * rotationSpeed
    /\ UNCHANGED <<files, hasCenter, cache, url, autoScale, view, pc, run, done>>

----------------------------------------------------------------------------
(* Specifications.  The frame callback touches the rotation only and the     *)
(* effect never reads it, so the three parts of the behaviour are explored   *)
(* apart: one file through the effect (every decoded file of the bounds),    *)
(* two files loaded in turn, and the frames.                                 *)

EmptyBuffer == [positions |-> <<>>, faces |-> <<>>, normals |-> <<>>, colors |-> <<>>]

IsPrefix(p, q) == Len(p) <= Len(q) /\ \A i \in 1..Len(p) : p[i] = q[i]

\* the files of the two-url runs: the first vertices of one triangle, no normals
LifeVerts == <<<<0, 0, 0>>, <<2, 0, 0>>, <<10, 10, 10>>>>
LifeBuffers == {b \in Buffers : b.normals = <<>> /\ IsPrefix(b.positions, LifeVerts)}

\* the files of the runs with frames: one point cloud, one mesh
FrameBuffers == {b \in LifeBuffers : b.colors = <<>> /\ Len(b.positions) = Len(LifeVerts)}

\* One url, every decoded file.
InitPipeline ==
    \E b \in Buffers : Start([u \in Urls |-> IF u = "x.ply" THEN b ELSE EmptyBuffer])

NextPipeline ==
    \/ Load("x.ply")
    \/ \E fault \in Faults : Effect(fault)
    \/ Rerender
    \/ Remount

SpecPipeline == InitPipeline /\ [][NextPipeline]_vars

\* Two urls loaded in any order, any number of times.
InitLoads == \E fs \in [Urls -> LifeBuffers] : Start(fs)

NextLoads ==
    \/ \E u \in Urls : Load(u)
    \/ \E fault \in Faults : Effect(fault)
    \/ Rerender
    \/ Remount

SpecLoads == InitLoads /\ [][NextLoads]_vars

\* Everything, frames included.
Init == \E fs \in [Urls -> FrameBuffers] : Start(fs)

Next ==
    \/ \E u \in Urls : Load(u)
    \/ \E fault \in Faults : Effect(fault)
    \/ Rerender
    \/ Remount
    \/ \E delta \in Deltas, rotationSpeed \in Speeds : Frame(delta, rotationSpeed)

Spec == Init /\ [][Next]_vars

----------------------------------------------------------------------------
(* What the claims speak of, stated without the operators above *)

AxisValues(ps, k) == {ps[i][k] : i \in 1..Len(ps)}
SetMax(S) == CHOOSE m \in S : \A x \in S : x <= m
SetMin(S) == CHOOSE m \in S : \A x \in S : m <= x
Extent(ps, k) == IF ps = <<>> THEN 0 ELSE SetMax(AxisValues(ps, k)) - SetMin(AxisValues(ps, k))
ExtentMax(ps) == SetMax({Extent(ps, 1), Extent(ps, 2), Extent(ps, 3)})

\* f = 2 / maxDim for a positive extent, f = 1 for none (ExtentMax is doubled)
IsFitScale(f, ps) ==
    IF ExtentMax(ps) > 0 THEN f[2] > 0 /\ f[1] * ExtentMax(ps) = 4 * f[2] ELSE f = <<1, 1>>

CentredAtOrigin(ps) ==
    \A k \in 1..3 : SetMin(AxisValues(ps, k)) + SetMax(AxisValues(ps, k)) = 0

\* the effect has run on the mounted geometry and returned without entering the catch
Completed == run.ran /\ ~run.threw

\* C1: after a run of the effect that did not throw, the stored auto-scale factor is
\* 2 / maxDim of the file's bounding box when maxDim > 0 and exactly 1 when
\* maxDim = 0; it is a positive finite number.
C1_AutoScale ==
    Completed =>
        /\ autoScale[1] > 0 /\ autoScale[2] > 0
        /\ IsFitScale(autoScale, files[run.url].positions)

C1_Witness ==
    /\ Completed
    /\ ExtentMax(files[run.url].positions) > 0
    /\ autoScale # <<1, 1>>

\* C2: after the recenter step on a geometry with at least one vertex the centre of
\* the bounding box of the new positions is the origin, center() and the loop give
\* the same positions, and a single vertex at (5,5,5) ends at the origin.
C2_Recentered ==
    (run.ran /\ run.recentered /\ Len(run.boxed.position) >= 1) =>
        /\ CentredAtOrigin(run.mid.position)
        /\ run.mid.position = Center(run.boxed).position
        /\ run.mid.position = ManualRecenter(run.boxed).position
        /\ (run.pre.position = <<<<10, 10, 10>>>> => run.mid.position = <<<<0, 0, 0>>>>)

C2_Witness ==
    /\ run.ran /\ run.recentered
    /\ Len(run.pre.position) >= 2
    /\ run.mid.position # run.pre.position
    /\ ~hasCenter

\* C3: the element rendered is <points> exactly when the file holds no faces
\* (indices absent or empty) and <mesh> otherwise, whatever else the state holds.
C3_RenderMode ==
    view # <<>> =>
        /\ (view[1].prim = "points") <=> (Len(files[view[1].geometry].faces) = 0)
        /\ (view[1].prim = "mesh") <=> (Len(files[view[1].geometry].faces) > 0)

C3_Witness == view # <<>> /\ view[1].prim = "mesh" /\ cache[url][1].normal # <<>>

\* C4: in a run that did not throw, normals are computed exactly when the geometry
\* has no normals and has an index, and then there is one normal per vertex;
\* otherwise the normal attribute is after the step what it was before it.
C4_Normals ==
    Completed =>
        IF run.mid.normal = <<>> /\ run.mid.index # <<>>
        THEN /\ run.post.normal # <<>>
             /\ Len(run.post.normal[1]) = Len(run.post.position)
        ELSE run.post.normal = run.mid.normal

C4_Witness ==
    /\ Completed
    /\ run.mid.normal = <<>> /\ run.mid.index # <<>>
    /\ run.post.normal # <<>>
    /\ \E i \in 1..Len(run.post.normal[1]) : run.post.normal[1][i].unit

\* C5: when a step of the effect throws, the geometry is left as it was before the
\* run (positions not recentred, no normals computed) and the scale factor is 1.
C5_Fallback ==
    (run.ran /\ run.threw) =>
        /\ run.post.position = run.pre.position
        /\ run.post.normal = run.pre.normal
        /\ autoScale = <<1, 1>>

\* C6: once the newest url's effect has finished and the renders it asked for are
\* done, the element shown, its scale, its primitive and its vertexColors all
\* describe the newest file: the scale is that file's own (or the identity of the
\* fallback after a caught failure), never the previous file's.
C6_LastWins ==
    (pc = "idle" /\ run.ran) =>
        /\ view # <<>>
        /\ view[1].geometry = url
        /\ (view[1].prim = "points") <=> (Len(files[url].faces) = 0)
        /\ view[1].vertexColors <=> (Len(files[url].colors) > 0)
        /\ \/ IsFitScale(view[1].scale, files[url].positions)
           \/ run.threw /\ view[1].scale = <<1, 1>>

\* C7: in every state where an element is shown, its scale is the identity or the
\* factor derived from the bounding box of the geometry it shows.
C7_ScaleOfShown ==
    view # <<>> =>
        \/ view[1].scale = <<1, 1>>
        \/ IsFitScale(view[1].scale, files[view[1].geometry].positions)

\* C8: the recenter step leaves the color, index and normal attributes (presence
\* and values) as they were.
C8_RecenterFrame ==
    (run.ran /\ run.recentered) =>
        /\ run.mid.color = run.boxed.color
        /\ run.mid.index = run.boxed.index
        /\ run.mid.normal = run.boxed.normal

\* C9: a frame adds exactly delta * rotationSpeed to the object's y-rotation and
\* changes nothing of the geometry, the scale factor or the element; the angle of
\* a mounted object is the sum of delta * rotationSpeed over its frames.
C9_Frames ==
    /\ [](view # <<>> => rotY = turn)
    /\ [][\A delta \in Deltas, rotationSpeed \in Speeds :
            Frame(delta, rotationSpeed) =>
                /\ rotY' = rotY + delta * rotationSpeed
                /\ UNCHANGED <<cache, autoScale, view, url>>]_vars

C9_Witness == view # <<>> /\ rotY = 0 - MaxDelta /\ run.ran

\* C10: a run of the effect that does not throw, on a geometry an earlier run
\* already normalized, hands setAutoScale the same factor as that run and leaves
\* positions, normals and the primitive as they were.
C10_Idempotent ==
    (Completed /\ run.preDone # <<>>) =>
        /\ run.set = run.preDone
        /\ run.post.position = run.pre.position
        /\ run.post.normal = run.pre.normal
        /\ (run.post.index = <<>>) <=> (run.pre.index = <<>>)

C10_Witness ==
    /\ Completed /\ run.preDone # <<>>
    /\ run.post.position # files[run.url].positions
    /\ run.set # <<<<1, 1>>>>
    /\ autoScale = run.set[1]

\* Arithmetic of the model: every bounding box measured has an even min + max, so
\* the halving in GetCenter is exact.
ExactCentre ==
    \A u \in Urls :
        cache[u] # <<>> /\ cache[u][1].position # <<>> =>
            \A k \in 1..3 :
                (SetMin(AxisValues(cache[u][1].position, k))
                 + SetMax(AxisValues(cache[u][1].position, k))) % 2 = 0

====
